---- MODULE Spec2Model ----
(***************************************************************************)
(* The tile server of src/app.py: the /tile and /bbox request handlers,    *)
(* the file-per-tile durable cache (load_or_fetch_tile, cache_tile_json),  *)
(* the external tile provider (fetch_tile_as_json) and the resampler       *)
(* (bilinear_sample), run by concurrent request workers.                   *)
(*                                                                         *)
(* Numbers: longitudes and latitudes are exact rationals [n, d] in         *)
(* degrees; the Web-Mercator limit 85.0511287798 is carried as 85 degrees. *)
(* A tile grid is named by the key of the tile whose image it is, and its  *)
(* 256 x 256 x 3 channel values are given by GridPixel.                    *)
(***************************************************************************)
EXTENDS Integers, Sequences, FiniteSets, TLC

-----------------------------------------------------------------------------
(* Bounds of the model *)

MaxRequests == 3      \* requests started over a whole run
MaxFaults == 1        \* environment faults (provider, disk, worker kill) over a run
MaxStitches == 2      \* requests served by the stitcher run on its own

Workers == {1, 2}     \* concurrent request workers (threads of the server)

-----------------------------------------------------------------------------
(* Program constants *)

TileLast == 255       \* last row / column index of a tile, the literal 255
TileSize == 256       \* rows and columns of a tile ("256x256 RGB array")
MercatorLat == 85     \* mercantile's latitude limit, 85.0511287798 degrees

-----------------------------------------------------------------------------
(* Rationals *)

Abs(a) == IF a < 0 THEN -a ELSE a

Min(a, b) == IF a < b THEN a ELSE b

RECURSIVE GCD(_, _)
GCD(a, b) == IF b = 0 THEN a ELSE GCD(b, a % b)

\* n/d in lowest terms, d > 0
Rat(n, d) ==
    LET g == GCD(Abs(n), d)
        h == IF g = 0 THEN 1 ELSE g
    IN  [n |-> n \div h, d |-> d \div h]

Floor(q) == q.n \div q.d

\* 2^z as a rational, z an integer of either sign
RECURSIVE Pow2(_)
Pow2(k) == IF k <= 0 THEN 1 ELSE 2 * Pow2(k - 1)

-----------------------------------------------------------------------------
(* numpy.linspace(start, stop, num), num >= 0: the num samples, as a list *)

linspace(start, stop, num) ==
    [k \in 1..num |->
        IF num = 1 THEN Rat(start, 1)
        ELSE Rat(start * (num - 1) + (k - 1) * (stop - start), num - 1)]

-----------------------------------------------------------------------------
(* mercantile: the tile of a point, and the bounds of a tile.  Tiles are      *)
(* <<x, y, z>>.  Rows are cut at the latitudes of LatEdge, which lists the    *)
(* zooms the requests of the model use.                                     *)

\* mercantile raises InvalidLatitudeError at the poles (sin(lat) = +-1)
LatInvalid(lat) == Abs(lat.n) = 90 * lat.d

\* latitude of the upper edge of row r at zoom z
LatEdge(z, r) ==
    CASE z = 1 /\ r = 0 -> MercatorLat
      [] z = 1 /\ r = 1 -> 0
      [] z = 1 /\ r = 2 -> -MercatorLat
      [] z = 0 /\ r = 0 -> MercatorLat
      [] z = 0 /\ r = 1 -> -MercatorLat
      [] z < 0 /\ r = 0 -> MercatorLat
      [] OTHER -> -90

\* int(Z2 - 1), the last column and row at zoom z (0 when Z2 < 1)
LastIndex(z) == IF z <= 0 THEN 0 ELSE Pow2(z) - 1

XTile(lon, z) ==
    IF lon.n <= -180 * lon.d THEN 0
    ELSE IF lon.n >= 180 * lon.d THEN LastIndex(z)
    ELSE ((lon.n + 180 * lon.d) * Pow2(z)) \div (360 * lon.d * Pow2(-z))

YTile(lat, z) ==
    Cardinality({r \in 1..LastIndex(z) : lat.n <= LatEdge(z, r) * lat.d})

MercantileTile(lon, lat, z) == <<XTile(lon, z), YTile(lat, z), z>>

\* width of a tile in degrees of longitude: 360 / 2^z
LonSpan(z) == (360 * Pow2(-z)) \div Pow2(z)

MercantileBounds(t) ==
    [west  |-> t[1] * LonSpan(t[3]) - 180,
     east  |-> (t[1] + 1) * LonSpan(t[3]) - 180,
     north |-> LatEdge(t[3], t[2]),
     south |-> LatEdge(t[3], t[2] + 1)]

-----------------------------------------------------------------------------
(* The provider's image of a tile, and bilinear_sample *)

Channels == 1..3

\* channel ch of pixel (row r, column c) of grid g
GridPixel(g, r, c, ch) == (17 * ch + 7 * g[1] + 13 * g[2] + 3 * r + 5 * c) % TileSize

\* Python list indexing: 0..255 as is, -256..-1 from the end, else IndexError
IndexOK(k) == k >= -TileSize /\ k <= TileLast

PyIndex(k) == IF k < 0 THEN k + TileSize ELSE k

\* the four neighbours bilinear_sample reads for (px, py)
SampleX0(px) == Floor(px)

\* (mutant) the right-hand neighbour is not clamped to the last column
SampleX1Unclamped(px) == Floor(px) + 1

SampleX1(px) == Min(Floor(px) + 1, TileLast)

SampleReadable(px, py) ==
    /\ IndexOK(SampleX0(px)) /\ IndexOK(SampleX1(px))
    /\ IndexOK(SampleX0(py)) /\ IndexOK(SampleX1(py))

\* one channel of the sample; astype(uint8) drops the fraction
SampleChannel(g, px, py, ch) ==
    LET x0 == SampleX0(px)
        y0 == SampleX0(py)
        x1 == SampleX1(px)
        y1 == SampleX1(py)
        fxn == px.n - x0 * px.d
        fyn == py.n - y0 * py.d
        c00 == GridPixel(g, PyIndex(y0), PyIndex(x0), ch)
        c10 == GridPixel(g, PyIndex(y0), PyIndex(x1), ch)
        c01 == GridPixel(g, PyIndex(y1), PyIndex(x0), ch)
        c11 == GridPixel(g, PyIndex(y1), PyIndex(x1), ch)
        top == c00 * (px.d - fxn) + c10 * fxn
        bottom == c01 * (px.d - fxn) + c11 * fxn
    IN  ((top * (py.d - fyn) + bottom * fyn) \div (px.d * py.d)) % TileSize

bilinear_sample(g, px, py) == [ch \in Channels |-> SampleChannel(g, px, py, ch)]

-----------------------------------------------------------------------------
(* The durable store: one file per tile, tiles_json/tile_{z}_{x}_{y}.json.    *)
(* A file is [exists, text]; text is the JSON text as a list of numbers:     *)
(* -1 and -2 stand for the outer brackets, between them the grid.            *)

NoData == << >>

\* (mutant) the text is left without its closing bracket
JsonDumpOpen(g) == <<-1>> \o g

JsonDump(g) == <<-1>> \o g \o <<-2>>

\* json.load succeeds only on a complete text
JsonValid(text) == Len(text) >= 2 /\ text[1] = -1 /\ text[Len(text)] = -2

JsonLoad(text) == SubSeq(text, 2, Len(text) - 1)

NoFile == [exists |-> FALSE, text |-> << >>]

\* open(path, "w"): the file exists and is empty
Truncated == [exists |-> TRUE, text |-> << >>]

\* what a json.dump that dies part-way leaves behind: the text so far
TornText(g) == SubSeq(JsonDump(g), 1, 2)

Complete(f) == f.exists /\ JsonValid(f.text)

Partial(f) == f.exists /\ ~JsonValid(f.text)

\* the image the provider serves for tile k, decoded (fetch_tile_as_json)
ProviderGrid(k) == k

-----------------------------------------------------------------------------
(* Requests.  A /tile request carries <<x, y, z>>; a /bbox request carries    *)
(* <<min_lon, min_lat, max_lon, max_lat, texture_width, texture_height,      *)
(* zoom>>; ok = FALSE is a query string that does not parse.                 *)

NoRequest == [route |-> "none", ok |-> FALSE, args |-> << >>]

TileRequests ==
    { [route |-> "tile", ok |-> TRUE,  args |-> <<0, 0, 1>>] }

BBoxRequests ==
    { [route |-> "bbox", ok |-> TRUE,  args |-> <<-90, 20, 90, 60, 2, 2, 1>>],
      [route |-> "bbox", ok |-> TRUE,  args |-> <<-90, 20, 90, 60, 0, 1, 1>>],
      [route |-> "bbox", ok |-> TRUE,  args |-> <<-90, 20, 90, 60, 1, 1, -1>>],
      [route |-> "bbox", ok |-> FALSE, args |-> << >>] }

\* /bbox requests served by the stitcher run on its own (one worker, no faults):
\* two tiles at 2 x 2 and at 1 x 1, the world tile at 3 x 3, four tiles at
\* 2 x 2, a longitude west of -180, one east of 180, a latitude north of the
\* Mercator limit, and the pole
StitchRequests ==
    { [route |-> "bbox", ok |-> TRUE, args |-> <<-90, 20, 90, 60, 2, 2, 1>>],
      [route |-> "bbox", ok |-> TRUE, args |-> <<-90, 20, 90, 60, 1, 1, 1>>],
      [route |-> "bbox", ok |-> TRUE, args |-> <<-180, -85, 180, 85, 3, 3, 0>>],
      [route |-> "bbox", ok |-> TRUE, args |-> <<-90, -60, 90, 60, 2, 2, 1>>],
      [route |-> "bbox", ok |-> TRUE, args |-> <<-200, 20, -100, 60, 1, 1, 1>>],
      [route |-> "bbox", ok |-> TRUE, args |-> <<200, 20, 300, 60, 1, 1, 1>>],
      [route |-> "bbox", ok |-> TRUE, args |-> <<-90, 20, 90, 89, 1, 1, 1>>],
      [route |-> "bbox", ok |-> TRUE, args |-> <<-90, 20, 90, 90, 1, 1, 1>>] }

min_lon(r) == r.args[1]
min_lat(r) == r.args[2]
max_lon(r) == r.args[3]
max_lat(r) == r.args[4]
texture_width(r) == r.args[5]
texture_height(r) == r.args[6]
zoom(r) == r.args[7]

\* numpy.linspace raises ValueError for a negative number of samples
LinspaceRaises(r) == texture_width(r) < 0 \/ texture_height(r) < 0

\* lines 112-113, for each request that gets that far
Gridded == {r \in BBoxRequests \cup StitchRequests : r.ok /\ ~LinspaceRaises(r)}

LonsOf == [r \in Gridded |-> linspace(min_lon(r), max_lon(r), texture_width(r))]

LatsOf == [r \in Gridded |-> linspace(max_lat(r), min_lat(r), texture_height(r))]

lons(r) == LonsOf[r]

lats(r) == LatsOf[r]

\* the tile of output pixel (row a, column b), counted from 1
PixelTile(r, a, b) == MercantileTile(lons(r)[b], lats(r)[a], zoom(r))

\* the tiles a request refers to
RefTilesOf ==
    [r \in TileRequests \cup BBoxRequests \cup StitchRequests |->
        IF r.route = "tile" /\ r.ok THEN {r.args}
        ELSE IF r \in Gridded
        THEN {PixelTile(r, a, b) :
                a \in {c \in 1..texture_height(r) : ~LatInvalid(lats(r)[c])},
                b \in 1..texture_width(r)}
        ELSE {}]

RefTiles(r) == RefTilesOf[r]

TileKeys == UNION {RefTiles(r) : r \in TileRequests \cup BBoxRequests \cup StitchRequests}

-----------------------------------------------------------------------------
(* State *)

VARIABLES
    store,     \* the files of tiles_json: tile key -> file
    pc,        \* where each worker stands: "idle", or inside load_or_fetch_tile
               \*   "call" (before os.path.exists), "read" (before open + json.load),
               \*   "fetch" (before requests.get), "open_w" (before open(path, "w")),
               \*   "dump" (file open and empty, before json.dump and close)
    req,       \* the request each worker is serving, or served last
    frame,     \* get_bbox's locals: i, j, tile_cache, final_texture
    data,      \* load_or_fetch_tile's local: the grid fetched, or NoData
    resp,      \* the response to each worker's request
    call,      \* each worker's activation of load_or_fetch_tile: its key, and
               \*   a record of what it met and did
    run,       \* record of the request in hand: provider calls, tile loads, ...
    prev,      \* record of the request the worker served before this one, kept
               \*   when the two requests are the same
    started,   \* requests started so far
    faults,    \* environment faults so far
    sample     \* one call of bilinear_sample made on its own: its arguments
               \*   and its outcome

vars == <<store, pc, req, frame, data, resp, call, run, prev, started, faults, sample>>

\* written lists the cells final_texture[i, j] assigned so far, sampled the
\* (px, py) passed to bilinear_sample so far, both in order
NoFrame ==
    [i |-> 0, j |-> 0, tile_cache |-> << >>, final_texture |-> << >>,
     written |-> << >>, sampled |-> << >>]

NoResponse == [status |-> "none", grid |-> << >>, texture |-> << >>]

Response(status) == [status |-> status, grid |-> << >>, texture |-> << >>]

NoCall ==
    [key |-> << >>, held |-> << >>, seen |-> "none", racing |-> FALSE,
     fetched |-> "none", wrote |-> FALSE, wfail |-> FALSE, ret |-> "none",
     out |-> << >>]

NoRun ==
    [nfetch |-> 0, loads |-> << >>, loadFailed |-> FALSE, fault |-> FALSE,
     solo |-> FALSE, cold |-> FALSE, warm |-> FALSE,
     written |-> << >>, sampled |-> << >>]

NoPrev == [req |-> NoRequest, resp |-> NoResponse, run |-> NoRun]

\* a worker between finding no file for k and the end of its write of k
Writing(q, k) == pc[q] \in {"fetch", "open_w", "dump"} /\ call[q].key = k

\* a worker inside cache_tile_json for k
InCacheTileJson(q, k) == pc[q] \in {"open_w", "dump"} /\ call[q].key = k

NoSample ==
    [g |-> << >>, px |-> Rat(0, 1), py |-> Rat(0, 1), called |-> FALSE,
     raised |-> FALSE, out |-> << >>]

InitServer ==
    /\ store = [k \in TileKeys |-> NoFile]
    /\ pc = [p \in Workers |-> "idle"]
    /\ req = [p \in Workers |-> NoRequest]
    /\ frame = [p \in Workers |-> NoFrame]
    /\ data = [p \in Workers |-> NoData]
    /\ resp = [p \in Workers |-> NoResponse]
    /\ call = [p \in Workers |-> NoCall]
    /\ run = [p \in Workers |-> NoRun]
    /\ prev = [p \in Workers |-> NoPrev]
    /\ started = 0
    /\ faults = 0

Init == InitServer /\ sample = NoSample

-----------------------------------------------------------------------------
(* get_bbox's loop, run from one call of load_or_fetch_tile to the next.      *)
(* The result is [kind, key, frame]: "call" (load_or_fetch_tile(key) is due   *)
(* for pixel (frame.i, frame.j)), "done" (the loop is over) or "error" (an   *)
(* exception left the handler).                                              *)

zeros(h, w) == [a \in 1..h |-> [b \in 1..w |-> [ch \in Channels |-> 0]]]

\* (mutant) the loop forgets to look in tile_cache
MemoHasNever(tile_cache, tile_key) == FALSE

\* tile_key not in tile_cache, negated
MemoHas(tile_cache, tile_key) == tile_key \in DOMAIN tile_cache

\* px, py of a point in its tile (lines 131-135)
PixelPx(lon, b) == Rat((lon.n - b.west * lon.d) * TileLast, lon.d * (b.east - b.west))

PixelPy(lat, b) == Rat((b.north * lat.d - lat.n) * TileLast, lat.d * (b.north - b.south))

\* (mutant) every sample is written to final_texture[0, 0]
AssignFirstCell(r, fr, v) ==
    LET last == fr.j + 1 >= texture_width(r)
    IN  [fr EXCEPT !.final_texture[1][1] = v,
                   !.written = Append(@, <<0, 0>>),
                   !.i = IF last THEN fr.i + 1 ELSE fr.i,
                   !.j = IF last THEN 0 ELSE fr.j + 1]

\* the frame after final_texture[i, j] is assigned v and the loops step on
Assign(r, fr, v) ==
    LET last == fr.j + 1 >= texture_width(r)
    IN  [fr EXCEPT !.final_texture[fr.i + 1][fr.j + 1] = v,
                   !.written = Append(@, <<fr.i, fr.j>>),
                   !.i = IF last THEN fr.i + 1 ELSE fr.i,
                   !.j = IF last THEN 0 ELSE fr.j + 1]

RECURSIVE RunLoop(_, _)
RECURSIVE SampleAndGo(_, _, _)

\* lines 128-137 for pixel (fr.i, fr.j), whose tile t is in tile_cache
SampleAndGo(r, fr, t) ==
    LET lon == lons(r)[fr.j + 1]
        lat == lats(r)[fr.i + 1]
        b == MercantileBounds(t)
        px == PixelPx(lon, b)
        py == PixelPy(lat, b)
        fs == [fr EXCEPT !.sampled = Append(@, <<px, py>>)]
    IN  IF ~SampleReadable(px, py)
        THEN [kind |-> "error", key |-> t, frame |-> fs]
        ELSE RunLoop(r, Assign(r, fs, bilinear_sample(fs.tile_cache[t], px, py)))

\* lines 121-127 from pixel (fr.i, fr.j) on
RunLoop(r, fr) ==
    IF fr.i >= texture_height(r) \/ texture_width(r) = 0
    THEN [kind |-> "done", key |-> << >>, frame |-> fr]
    ELSE IF LatInvalid(lats(r)[fr.i + 1])
    THEN [kind |-> "error", key |-> << >>, frame |-> fr]
    ELSE LET t == PixelTile(r, fr.i + 1, fr.j + 1)
         IN  IF MemoHas(fr.tile_cache, t)
             THEN SampleAndGo(r, fr, t)
             ELSE [kind |-> "call", key |-> t, frame |-> fr]

\* line 127's assignment once load_or_fetch_tile(t) has returned d, and on
AfterLoad(r, fr, t, d) ==
    SampleAndGo(r, [fr EXCEPT !.tile_cache = (t :> d) @@ fr.tile_cache], t)

-----------------------------------------------------------------------------
(* How an activation of load_or_fetch_tile ends, and what its caller does     *)
(* next.  c is the activation's record, rf the request records to install.   *)

Set(f, p, v) == [f EXCEPT ![p] = v]

\* the handler returns (or an exception leaves it): worker p answers
Answer(p, rsp, c, rf) ==
    /\ pc' = Set(pc, p, "idle")
    /\ resp' = Set(resp, p, rsp)
    /\ frame' = Set(frame, p, NoFrame)
    /\ data' = Set(data, p, NoData)
    /\ call' = Set(call, p, c)
    /\ run' = rf

\* (mutant) the cache is never consulted
PathExistsNever(k) == FALSE

\* os.path.exists(path)
PathExists(k) == store[k].exists

\* lines 40-41: load_or_fetch_tile(k) is called and tests for the file
Enter(p, k, fr, rf) ==
    /\ pc' = Set(pc, p, IF PathExists(k) THEN "read" ELSE "fetch")
    /\ call' = Set(call, p,
            [NoCall EXCEPT !.key = k, !.ret = "pending",
                !.held = IF Complete(store[k]) THEN JsonLoad(store[k].text)
                         ELSE << >>])
    /\ run' = Set(rf, p, [rf[p] EXCEPT !.loads = Append(@, k)])
    /\ frame' = Set(frame, p, fr)
    /\ data' = Set(data, p, NoData)
    /\ resp' = Set(resp, p, NoResponse)

\* the request records once worker p's loop has ended with frame fr
Ended(rf, p, fr) ==
    Set(rf, p, [rf[p] EXCEPT !.written = fr.written, !.sampled = fr.sampled])

\* a handler that has just started goes on from loop outcome o; its first
\* call of load_or_fetch_tile is taken in the same step
Begin(p, o, rf) ==
    IF o.kind = "call"
    THEN Enter(p, o.key, o.frame, rf)
    ELSE IF o.kind = "done"
    THEN Answer(p, [status |-> "200", grid |-> << >>,
                    texture |-> o.frame.final_texture], NoCall, Ended(rf, p, o.frame))
    ELSE Answer(p, Response("500"), NoCall, Ended(rf, p, o.frame))

\* get_bbox goes on from loop outcome o after a tile was loaded
Proceed(p, o, c, rf) ==
    IF o.kind = "call"
    THEN /\ pc' = Set(pc, p, "call")
         /\ frame' = Set(frame, p, o.frame)
         /\ data' = Set(data, p, NoData)
         /\ call' = Set(call, p, c)
         /\ run' = rf
         /\ UNCHANGED resp
    ELSE IF o.kind = "done"
    THEN Answer(p, [status |-> "200", grid |-> << >>,
                    texture |-> o.frame.final_texture], c, Ended(rf, p, o.frame))
    ELSE Answer(p, Response("500"), c, Ended(rf, p, o.frame))

\* (mutant) get_bbox catches the exception, leaves the pixel black and goes on
LoadRaiseFill(p, c, rn) ==
    LET c2 == [c EXCEPT !.ret = "raised"]
        rf == Set(run, p, [rn EXCEPT !.loadFailed = TRUE])
    IN  IF req[p].route = "tile"
        THEN Answer(p, Response("502"), c2, rf)
        ELSE Proceed(p, RunLoop(req[p], Assign(req[p], frame[p], [ch \in Channels |-> 0])),
                     c2, rf)

\* an exception leaves load_or_fetch_tile: get_tile answers 502 (lines 90-91),
\* get_bbox does not catch it (line 127)
LoadRaise(p, c, rn) ==
    LET c2 == [c EXCEPT !.ret = "raised"]
        rf == Set(run, p, [rn EXCEPT !.loadFailed = TRUE])
    IN  IF req[p].route = "tile"
        THEN Answer(p, Response("502"), c2, rf)
        ELSE Answer(p, Response("500"), c2, rf)

\* load_or_fetch_tile returns d: get_tile answers it (line 92), get_bbox keeps
\* it in tile_cache and goes on (lines 127-137)
LoadReturn(p, d, c, rn) ==
    LET c2 == [c EXCEPT !.ret = "returned", !.out = d]
        rf == Set(run, p, rn)
    IN  IF req[p].route = "tile"
        THEN Answer(p, [status |-> "200", grid |-> d, texture |-> << >>], c2, rf)
        ELSE Proceed(p, AfterLoad(req[p], frame[p], c.key, d), c2, rf)

-----------------------------------------------------------------------------
(* Requests arrive *)

\* the request records once worker p starts request r
StartRuns(p, r) ==
    [q \in Workers |->
        IF q = p
        THEN [NoRun EXCEPT
                !.solo = \A w \in Workers \ {p} : pc[w] = "idle",
                !.cold = \A k \in RefTiles(r) : ~store[k].exists,
                !.warm = \A k \in RefTiles(r) :
                            Complete(store[k]) /\ \A w \in Workers : ~Writing(w, k)]
        ELSE IF pc[q] # "idle" THEN [run[q] EXCEPT !.solo = FALSE]
        ELSE run[q]]

Arrive(p, r) ==
    /\ pc[p] = "idle"
    /\ \A q \in Workers : q < p => pc[q] # "idle"
    /\ started < MaxRequests
    /\ started' = started + 1
    /\ req' = Set(req, p, r)
    /\ prev' = Set(prev, p, IF r = req[p]
                             THEN [req |-> req[p], resp |-> resp[p], run |-> run[p]]
                             ELSE NoPrev)
    /\ UNCHANGED <<store, faults, sample>>

\* get_tile, lines 81-89, into load_or_fetch_tile
GetTile(p, r) ==
    /\ Arrive(p, r)
    /\ IF ~r.ok
       THEN Answer(p, Response("400"), NoCall, StartRuns(p, r))
       ELSE Enter(p, r.args, NoFrame, StartRuns(p, r))

\* get_bbox, lines 100-127, into the first call of load_or_fetch_tile
GetBBox(p, r) ==
    /\ Arrive(p, r)
    /\ IF ~r.ok
       THEN Answer(p, Response("400"), NoCall, StartRuns(p, r))
       ELSE IF LinspaceRaises(r)
       THEN Answer(p, Response("500"), NoCall, StartRuns(p, r))
       ELSE Begin(p,
                RunLoop(r, [NoFrame EXCEPT
                            !.final_texture = zeros(texture_height(r), texture_width(r))]),
                StartRuns(p, r))

-----------------------------------------------------------------------------
(* load_or_fetch_tile, fetch_tile_as_json, cache_tile_json *)

\* the tile of the pixel get_bbox stands at
NextKey(p) == PixelTile(req[p], frame[p].i + 1, frame[p].j + 1)

\* line 127: get_bbox calls load_or_fetch_tile for a tile not in tile_cache
Call(p) ==
    /\ pc[p] = "call"
    /\ Enter(p, NextKey(p), frame[p], run)
    /\ UNCHANGED <<store, req, prev, started, faults, sample>>

\* lines 42-43: open the file and json.load it; a text that is not complete
\* raises json.JSONDecodeError
Read(p) ==
    /\ pc[p] = "read"
    /\ LET k == call[p].key
           text == store[k].text
           c == [call[p] EXCEPT
                    !.seen = IF JsonValid(text) THEN "whole" ELSE "torn",
                    !.racing = \E q \in Workers \ {p} : InCacheTileJson(q, k)]
       IN  IF JsonValid(text)
           THEN LoadReturn(p, JsonLoad(text), c, run[p])
           ELSE LoadRaise(p, c, run[p])
    /\ UNCHANGED <<store, req, prev, started, faults, sample>>

\* lines 28-33 and 44: the provider answers and the image decodes
FetchOK(p) ==
    /\ pc[p] = "fetch"
    /\ pc' = Set(pc, p, "open_w")
    /\ data' = Set(data, p, ProviderGrid(call[p].key))
    /\ call' = Set(call, p, [call[p] EXCEPT !.fetched = "ok"])
    /\ run' = Set(run, p, [run[p] EXCEPT !.nfetch = @ + 1])
    /\ UNCHANGED <<store, req, frame, resp, prev, started, faults, sample>>

\* requests.get or raise_for_status raises ("http"), or Image.open raises
\* ("decode")
FetchFailures == {"http", "decode"}

\* (mutant) the status is not checked: what came back is cached all the same
FetchFailStores(p, cause) ==
    /\ pc[p] = "fetch"
    /\ faults < MaxFaults
    /\ faults' = faults + 1
    /\ pc' = Set(pc, p, "open_w")
    /\ data' = Set(data, p, NoData)
    /\ call' = Set(call, p, [call[p] EXCEPT !.fetched = cause])
    /\ run' = Set(run, p, [run[p] EXCEPT !.nfetch = @ + 1, !.fault = TRUE])
    /\ UNCHANGED <<store, req, frame, resp, prev, started, sample>>

\* (mutant) a failed fetch removes the files of the tiles the request has
\* loaded so far
FetchFailRollback(p, cause) ==
    /\ pc[p] = "fetch"
    /\ faults < MaxFaults
    /\ faults' = faults + 1
    /\ store' = [k \in TileKeys |->
                    IF k \in DOMAIN frame[p].tile_cache THEN NoFile ELSE store[k]]
    /\ LoadRaise(p, [call[p] EXCEPT !.fetched = cause],
                 [run[p] EXCEPT !.nfetch = @ + 1, !.fault = TRUE])
    /\ UNCHANGED <<req, prev, started, sample>>

FetchFail(p, cause) ==
    /\ pc[p] = "fetch"
    /\ faults < MaxFaults
    /\ faults' = faults + 1
    /\ LoadRaise(p, [call[p] EXCEPT !.fetched = cause],
                 [run[p] EXCEPT !.nfetch = @ + 1, !.fault = TRUE])
    /\ UNCHANGED <<store, req, prev, started, sample>>

\* line 36: open(path, "w") creates or empties the file
OpenW(p) ==
    /\ pc[p] = "open_w"
    /\ store' = Set(store, call[p].key, Truncated)
    /\ pc' = Set(pc, p, "dump")
    /\ call' = Set(call, p, [call[p] EXCEPT !.wrote = TRUE])
    /\ UNCHANGED <<req, frame, data, resp, run, prev, started, faults, sample>>

\* line 36: open(path, "w") raises OSError
OpenFail(p) ==
    /\ pc[p] = "open_w"
    /\ faults < MaxFaults
    /\ faults' = faults + 1
    /\ LoadRaise(p, [call[p] EXCEPT !.wfail = TRUE], [run[p] EXCEPT !.fault = TRUE])
    /\ UNCHANGED <<store, req, prev, started, sample>>

\* lines 37 and 46: json.dump writes the text, the file is closed, the grid
\* is returned
Dump(p) ==
    /\ pc[p] = "dump"
    /\ store' = Set(store, call[p].key, [exists |-> TRUE, text |-> JsonDump(data[p])])
    /\ LoadReturn(p, data[p], call[p], run[p])
    /\ UNCHANGED <<req, prev, started, faults, sample>>

\* line 37: json.dump raises OSError part-way (disk full)
DumpFail(p) ==
    /\ pc[p] = "dump"
    /\ faults < MaxFaults
    /\ faults' = faults + 1
    /\ store' = Set(store, call[p].key, [exists |-> TRUE, text |-> TornText(data[p])])
    /\ LoadRaise(p, [call[p] EXCEPT !.wfail = TRUE], [run[p] EXCEPT !.fault = TRUE])
    /\ UNCHANGED <<req, prev, started, sample>>

\* the worker is killed, or the request is cancelled, inside load_or_fetch_tile:
\* nothing more of the handler runs
Abandon(p) ==
    /\ pc[p] # "idle"
    /\ faults < MaxFaults
    /\ faults' = faults + 1
    /\ Answer(p, Response("killed"), [call[p] EXCEPT !.ret = "abandoned"],
              Set(run, p, [run[p] EXCEPT !.fault = TRUE]))
    /\ UNCHANGED <<store, req, prev, started, sample>>

Next ==
    \E p \in Workers :
        \/ \E r \in TileRequests : GetTile(p, r)
        \/ \E r \in BBoxRequests : GetBBox(p, r)
        \/ Call(p)
        \/ Read(p)
        \/ FetchOK(p)
        \/ \E cause \in FetchFailures : FetchFail(p, cause)
        \/ OpenW(p)
        \/ OpenFail(p)
        \/ Dump(p)
        \/ DumpFail(p)
        \/ Abandon(p)

Spec == Init /\ [][Next]_vars

-----------------------------------------------------------------------------
(* The stitcher on its own: /bbox requests served one after the other by one  *)
(* worker, with the provider and the disk working.                           *)

Stitch(r) == started < MaxStitches /\ GetBBox(1, r)

NextStitch ==
    \/ \E r \in StitchRequests : Stitch(r)
    \/ Call(1)
    \/ Read(1)
    \/ FetchOK(1)
    \/ OpenW(1)
    \/ Dump(1)

SpecStitch == Init /\ [][NextStitch]_vars

-----------------------------------------------------------------------------
(* bilinear_sample on its own: one call, on arguments drawn from SampleInputs *)

SampleGrids == {<<0, 0, 1>>, <<1, 0, 1>>}

\* 0, 1/2, 3/4, 127, 254 1/2, 255, and outside the tile -28 1/2 and 256
SampleCoords ==
    {Rat(0, 1), Rat(1, 2), Rat(3, 4), Rat(127, 1), Rat(509, 2), Rat(255, 1),
     Rat(-57, 2), Rat(256, 1)}

SampleInputs ==
    {[NoSample EXCEPT !.g = g, !.px = px, !.py = py] :
        g \in SampleGrids, px \in SampleCoords, py \in SampleCoords}

InitSample == InitServer /\ sample \in SampleInputs

\* bilinear_sample(g, px, py) runs: it returns, or an index beyond the grid
\* raises IndexError
Sample ==
    /\ ~sample.called
    /\ sample' =
            IF SampleReadable(sample.px, sample.py)
            THEN [sample EXCEPT !.called = TRUE,
                                !.out = bilinear_sample(sample.g, sample.px, sample.py)]
            ELSE [sample EXCEPT !.called = TRUE, !.raised = TRUE]
    /\ UNCHANGED <<store, pc, req, frame, data, resp, call, run, prev, started, faults>>

NextSample == Sample

SpecSample == InitSample /\ [][NextSample]_vars

-----------------------------------------------------------------------------
(* Claims *)

TileA == <<0, 0, 1>>

TileB == <<1, 0, 1>>

Stitch2x2 == [route |-> "bbox", ok |-> TRUE, args |-> <<-90, 20, 90, 60, 2, 2, 1>>]

\* worker p's request has been answered (it was not killed)
Answered(p) == pc[p] = "idle" /\ resp[p].status \notin {"none", "killed"}

\* C1: a call of load_or_fetch_tile(k) made while the store holds a complete
\* entry for k returns that stored content, calls the provider not at all and
\* writes nothing to the store.
C1_HitReturnsStored ==
    \A p \in Workers :
        (call[p].held # << >> /\ call[p].ret \in {"returned", "raised"})
            => /\ call[p].ret = "returned"
               /\ call[p].out = call[p].held
               /\ call[p].fetched = "none"
               /\ ~call[p].wrote

\* C2: a read of a tile's file made while another worker is inside
\* cache_tile_json for the same tile sees a complete text.
C2_NoTornRead ==
    \A p \in Workers : call[p].racing => call[p].seen = "whole"

\* C3: a /bbox request one of whose tile loads failed has ended, with an error
\* and with no texture, whole or partial.
C3_FailedLoadFailsStitch ==
    \A p \in Workers :
        (req[p].route = "bbox" /\ run[p].loadFailed)
            => /\ pc[p] = "idle"
               /\ resp[p].status = "500"
               /\ resp[p].texture = << >>

\* C3 witness: the provider failed for the second tile of a stitch, after the
\* first tile was loaded and its pixel computed.
C3_Witness ==
    \E p \in Workers :
        /\ req[p] = Stitch2x2
        /\ run[p].loadFailed
        /\ run[p].loads = <<TileA, TileB>>
        /\ call[p].fetched \in FetchFailures
        /\ resp[p].status = "500"

\* width <= 0, height <= 0, min >= max on an axis, or a zoom below 0
Invalid(r) ==
    \/ texture_width(r) <= 0
    \/ texture_height(r) <= 0
    \/ min_lon(r) >= max_lon(r)
    \/ min_lat(r) >= max_lat(r)
    \/ zoom(r) < 0

\* C4: a /bbox request with invalid parameters is answered 400 (invalid
\* parameters) at once: no tile is loaded and the provider is not called.
C4_InvalidRejected ==
    \A p \in Workers :
        (req[p].route = "bbox" /\ req[p].ok /\ Invalid(req[p]))
            => /\ pc[p] = "idle"
               /\ resp[p].status = "400"
               /\ run[p].loads = << >>
               /\ run[p].nfetch = 0

\* C5: within one /bbox request load_or_fetch_tile is called at most once for
\* each tile.
C5_LoadOncePerTile ==
    \A p \in Workers :
        req[p].route = "bbox"
            => \A a, b \in 1..Len(run[p].loads) :
                    a # b => run[p].loads[a] # run[p].loads[b]

\* C5 witness: a stitch of four pixels over two tiles, visited A, B, A, B, has
\* been answered after two loads.
C5_Witness ==
    \E p \in Workers :
        /\ req[p] = Stitch2x2
        /\ Answered(p)
        /\ resp[p].status = "200"
        /\ Len(resp[p].texture) = 2
        /\ run[p].loads = <<TileA, TileB>>

\* C6: a tile's file changes only in a step of a worker that is inside
\* cache_tile_json for that tile with the grid of a fetch and decode that
\* succeeded; a step in which the fetch or the decode fails changes no file and
\* ends the call.
C6_WriteOnlyAfterDecode ==
    [][ /\ \A k \in TileKeys :
              store'[k] # store[k]
                  => \E p \in Workers :
                        /\ InCacheTileJson(p, k)
                        /\ call[p].fetched = "ok"
                        /\ data[p] = ProviderGrid(k)
        /\ \A p \in Workers :
              (pc[p] = "fetch" /\ call'[p].fetched \in FetchFailures)
                  => store' = store /\ pc'[p] = "idle"
      ]_vars

\* C6 witness: a decode has failed and the tile has no file, while another
\* call fetched, decoded and then wrote its tile.
C6_Witness ==
    \E p, q \in Workers :
        /\ call[p].fetched = "decode"
        /\ call[p].ret = "raised"
        /\ ~store[call[p].key].exists
        /\ call[q].fetched = "ok"
        /\ call[q].ret = "returned"
        /\ store[call[q].key].text = JsonDump(ProviderGrid(call[q].key))

\* C7: once a request has been abandoned inside load_or_fetch_tile, and no
\* other worker is writing the tile's file, the file is absent or complete.
C7_AbandonLeavesNoTorn ==
    \A p \in Workers :
        (call[p].ret = "abandoned"
            /\ \A q \in Workers : ~InCacheTileJson(q, call[p].key))
            => ~Partial(store[call[p].key])

\* C8: when fetch and decode succeeded and the write to the store failed, the
\* call still returns the fetched grid and the request is not answered with an
\* error.
C8_WriteFailureNotFatal ==
    \A p \in Workers :
        (call[p].fetched = "ok" /\ call[p].wfail)
            => /\ call[p].ret = "returned"
               /\ call[p].out = ProviderGrid(call[p].key)
               /\ resp[p].status \notin {"500", "502"}

\* no fault (provider, disk, kill) met the request, and no other request was
\* being served at any time while it was
Undisturbed(rn) == rn.solo /\ ~rn.fault

\* C9: two /tile requests for the same tile, served one after the other with
\* nothing else in flight and no fault, the first starting with no file for
\* the tile: both are answered 200 with the same grid, and the provider was
\* called exactly once over the two.
C9_TwiceOneFetch ==
    \A p \in Workers :
        (/\ req[p].route = "tile"
         /\ prev[p].req = req[p]
         /\ prev[p].run.cold
         /\ Undisturbed(prev[p].run)
         /\ Undisturbed(run[p])
         /\ pc[p] = "idle")
            => /\ prev[p].resp.status = "200"
               /\ resp[p].status = "200"
               /\ resp[p].grid = prev[p].resp.grid
               /\ resp[p].grid = ProviderGrid(req[p].args)
               /\ prev[p].run.nfetch + run[p].nfetch = 1

\* C9 witness: the second of two such requests has been answered from the file.
C9_Witness ==
    \E p \in Workers :
        /\ req[p].route = "tile"
        /\ prev[p].req = req[p]
        /\ prev[p].run.cold
        /\ Undisturbed(prev[p].run)
        /\ Undisturbed(run[p])
        /\ Answered(p)
        /\ resp[p].grid = TileA
        /\ prev[p].run.nfetch = 1
        /\ run[p].nfetch = 0
        /\ call[p].seen = "whole"

\* C10: two /bbox requests with the same, well-formed parameters, served one after the
\* other, the first starting with every tile it refers to held complete by the
\* store and no write of such a tile pending: both are answered 200 with the
\* same texture, and neither calls the provider.
C10_StitchIdempotent ==
    \A p \in Workers :
        (/\ req[p] \in Gridded
         /\ prev[p].req = req[p]
         /\ prev[p].run.warm
         /\ Answered(p)
         /\ prev[p].resp.status # "killed")
            => /\ prev[p].resp.status = "200"
               /\ resp[p] = prev[p].resp
               /\ prev[p].run.nfetch = 0
               /\ run[p].nfetch = 0

\* C10 witness: the 2 x 2 stitch over two stored tiles has been answered twice.
C10_Witness ==
    \E p \in Workers :
        /\ req[p] = Stitch2x2
        /\ prev[p].req = req[p]
        /\ prev[p].run.warm
        /\ Answered(p)
        /\ resp[p].status = "200"
        /\ Len(resp[p].texture) = 2
        /\ Len(resp[p].texture[1]) = 2
        /\ resp[p] = prev[p].resp
        /\ run[p].loads = <<TileA, TileB>>

\* the tiles of zoom level z
TilesAt(z) == {<<x, y, z>> : x \in 0..LastIndex(z), y \in 0..LastIndex(z)}

\* the bounds of tile t and the bbox of request r overlap
Intersects(t, r) ==
    LET b == MercantileBounds(t)
    IN  /\ b.west < max_lon(r) /\ b.east > min_lon(r)
        /\ b.south < max_lat(r) /\ b.north > min_lat(r)

Intersecting(r) == {t \in TilesAt(zoom(r)) : Intersects(t, r)}

\* the tile keys a request passed to load_or_fetch_tile
Loaded(rn) == {rn.loads[n] : n \in 1..Len(rn.loads)}

\* C11: the tiles a stitch that returned a raster has loaded are exactly the
\* tiles of its zoom level whose bounds intersect its bbox.
C11_ExactCoverage ==
    \A p \in Workers :
        (req[p] \in Gridded /\ Answered(p) /\ resp[p].status = "200")
            => Loaded(run[p]) = Intersecting(req[p])

World3x3 == [route |-> "bbox", ok |-> TRUE, args |-> <<-180, -85, 180, 85, 3, 3, 0>>]

\* the cells (i, j) of the raster of request r
Cells(r) ==
    {<<i, j>> : i \in 0..(texture_height(r) - 1), j \in 0..(texture_width(r) - 1)}

\* the sample of the tile of pixel (i, j) at the pixel's place in that tile
PixelSample(r, i, j) ==
    LET t == PixelTile(r, i + 1, j + 1)
        b == MercantileBounds(t)
    IN  bilinear_sample(ProviderGrid(t), PixelPx(lons(r)[j + 1], b),
                        PixelPy(lats(r)[i + 1], b))

\* C12: when a stitch returns a raster, the raster has H rows of W cells, each
\* cell was assigned exactly once during the request, no other cell was
\* assigned, and each cell holds the sample of its pixel.
C12_EveryCellOnce ==
    \A p \in Workers :
        (req[p] \in Gridded /\ Answered(p) /\ resp[p].status = "200")
            => LET r == req[p]
                   w == run[p].written
                   tx == resp[p].texture
               IN  /\ Len(tx) = texture_height(r)
                   /\ \A a \in 1..Len(tx) : Len(tx[a]) = texture_width(r)
                   /\ \A n \in 1..Len(w) : w[n] \in Cells(r)
                   /\ \A c \in Cells(r) :
                        /\ Cardinality({n \in 1..Len(w) : w[n] = c}) = 1
                        /\ tx[c[1] + 1][c[2] + 1] = PixelSample(r, c[1], c[2])

\* C12 witness: the 3 x 3 stitch of the world tile has returned its raster
\* after nine assignments, the last to cell (2, 2).
C12_Witness ==
    \E p \in Workers :
        /\ req[p] = World3x3
        /\ Answered(p)
        /\ resp[p].status = "200"
        /\ Len(run[p].written) = 9
        /\ run[p].written[9] = <<2, 2>>
        /\ resp[p].texture[3][3] = PixelSample(World3x3, 2, 2)

\* worker p's call of load_or_fetch_tile missed on k, got the provider's grid,
\* met no write failure and is over
MissedAndDone(p, k) ==
    /\ call[p].key = k
    /\ call[p].fetched = "ok"
    /\ ~call[p].wfail
    /\ call[p].ret \in {"returned", "raised"}

\* C13: when the calls of two workers both missed on tile k, the provider
\* served each and both are over, the file of k is complete and holds the
\* provider's grid, and both calls returned that grid.
C13_RacingMissesConverge ==
    \A k \in TileKeys : \A p, q \in Workers :
        (p # q /\ MissedAndDone(p, k) /\ MissedAndDone(q, k))
            => /\ Complete(store[k])
               /\ JsonLoad(store[k].text) = ProviderGrid(k)
               /\ call[p].ret = "returned" /\ call[p].out = ProviderGrid(k)
               /\ call[q].ret = "returned" /\ call[q].out = ProviderGrid(k)

\* C13 witness: two requests for tile A were in flight together, each fetched
\* the tile (a duplicate fetch) and wrote it, and both have been answered.
C13_Witness ==
    /\ MissedAndDone(1, TileA) /\ MissedAndDone(2, TileA)
    /\ run[1].nfetch >= 1 /\ run[2].nfetch >= 1
    /\ ~run[1].solo /\ ~run[2].solo
    /\ Answered(1) /\ Answered(2)
    /\ store[TileA].text = JsonDump(ProviderGrid(TileA))

\* q lies in [0, S - 1], S the tile size
InTile(q) == q.n >= 0 /\ q.n <= TileLast * q.d

Corner == Rat(TileLast, 1)

\* C14: a call of bilinear_sample with px and py in [0, S - 1] raises no
\* IndexError and reads only rows and columns 0..S-1; at (S - 1, S - 1) it
\* returns grid[S - 1][S - 1] exactly.
C14_BoundaryExact ==
    (sample.called /\ InTile(sample.px) /\ InTile(sample.py))
        => /\ ~sample.raised
           /\ {SampleX0(sample.px), SampleX1(sample.px),
               SampleX0(sample.py), SampleX1(sample.py)} \subseteq 0..TileLast
           /\ (sample.px = Corner /\ sample.py = Corner)
                => sample.out =
                     [ch \in Channels |-> GridPixel(sample.g, TileLast, TileLast, ch)]

\* C14 witness: bilinear_sample(grid of tile B, 255, 255) has returned the
\* grid's last pixel.
C14_Witness ==
    /\ sample.called
    /\ sample.g = TileB
    /\ sample.px = Corner /\ sample.py = Corner
    /\ sample.out = [ch \in Channels |-> GridPixel(TileB, TileLast, TileLast, ch)]

\* the bilinear weighted average of the four neighbours of (px, py) in channel
\* ch, with weights fx = px - floor(px) and fy = py - floor(py), as a rational
WeightedAverage(g, px, py, ch) ==
    LET x0 == Floor(px)
        y0 == Floor(py)
        x1 == Min(x0 + 1, TileLast)
        y1 == Min(y0 + 1, TileLast)
        fx == px.n - x0 * px.d
        fy == py.n - y0 * py.d
        upper == GridPixel(g, y0, x0, ch) * (px.d - fx) + GridPixel(g, y0, x1, ch) * fx
        lower == GridPixel(g, y1, x0, ch) * (px.d - fx) + GridPixel(g, y1, x1, ch) * fx
    IN  Rat(upper * (py.d - fy) + lower * fy, px.d * py.d)

\* v is q rounded to the nearest integer (either neighbour at a tie)
NearestTo(v, q) == 2 * Abs(v * q.d - q.n) <= q.d

\* C15: each channel bilinear_sample returns for px, py in [0, S - 1] is the
\* weighted average of the four neighbours rounded to the nearest integer, in
\* 0..255.
C15_RoundsToNearest ==
    (sample.called /\ InTile(sample.px) /\ InTile(sample.py))
        => /\ ~sample.raised
           /\ \A ch \in Channels :
                /\ sample.out[ch] \in 0..TileLast
                /\ NearestTo(sample.out[ch],
                             WeightedAverage(sample.g, sample.px, sample.py, ch))

\* the (px, py) worker p's request has passed to bilinear_sample
PassedBy(p) ==
    {frame[p].sampled[n] : n \in 1..Len(frame[p].sampled)}
        \cup {run[p].sampled[n] : n \in 1..Len(run[p].sampled)}

\* C16: every (px, py) a stitch passes to bilinear_sample lies in
\* [0, S - 1] x [0, S - 1], whatever the bbox.
C16_InTileCoordinates ==
    \A p \in Workers : \A s \in PassedBy(p) : InTile(s[1]) /\ InTile(s[2])

\* C17: once the file of a tile is complete, no step changes it.
C17_CompleteStaysComplete ==
    [][ \A k \in TileKeys : Complete(store[k]) => store'[k] = store[k] ]_vars

\* the tiles a stitch had loaded before the load that failed
LoadedBefore(rn) == {rn.loads[n] : n \in 1..(Len(rn.loads) - 1)}

\* C18: after a stitch has failed in a tile load, the file of every tile it
\* had loaded before is still there, and a retry of the same stitch calls the
\* provider for none of those tiles; when no other request ran alongside the
\* failed stitch, those files are complete and hold the provider's grids.
C18_NoRollback ==
    \A p \in Workers :
        /\ (req[p].route = "bbox" /\ run[p].loadFailed)
              => \A k \in LoadedBefore(run[p]) :
                    /\ store[k].exists
                    /\ run[p].solo => store[k].text = JsonDump(ProviderGrid(k))
        /\ (req[p].route = "bbox" /\ prev[p].req = req[p] /\ prev[p].run.loadFailed)
              => \A k \in LoadedBefore(prev[p].run) :
                    /\ store[k].exists
                    /\ prev[p].run.solo => store[k].text = JsonDump(ProviderGrid(k))
                    /\ ~(call[p].key = k /\ call[p].fetched # "none")

\* C18 witness: the 2 x 2 stitch failed at tile B after loading tile A, and its
\* retry has been answered after reading A from the store and fetching B.
C18_Witness ==
    \E p \in Workers :
        /\ req[p] = Stitch2x2
        /\ prev[p].req = req[p]
        /\ prev[p].run.loadFailed
        /\ prev[p].run.loads = <<TileA, TileB>>
        /\ Answered(p)
        /\ resp[p].status = "200"
        /\ run[p].loads = <<TileA, TileB>>
        /\ run[p].nfetch = 1
        /\ call[p].key = TileB /\ call[p].fetched = "ok"

====
